---- MODULE Spec2Model ----
(***************************************************************************)
(* Model of google/cloud/firestore_v1/services/firestore/pagers.py:        *)
(* ListDocumentsPager and PartitionQueryPager.  A pager wraps a caller     *)
(* supplied method, a copy of the initial request and the initial          *)
(* response; its `pages` property and its `__iter__` method are Python     *)
(* generators that share the pager's _request and _response.  No lock is   *)
(* held: a generator that advances can be interrupted between any two of   *)
(* its accesses to the pager, and waits inside the method until it returns *)
(* or raises; other generators run meanwhile.                              *)
(***************************************************************************)
EXTENDS Integers, Sequences, FiniteSets

\* ------------------------------------------------------------------------
\* Bounds of the model
\* ------------------------------------------------------------------------
\* longest page chain the remote side serves
MaxPages == 3
\* most items carried by one page
MaxItems == 2
\* the remote calls numbered 1..MaxFaultCall are the ones that may fail, on a
\* remote side that fails at all
MaxFaultCall == 2
\* invocations of the method made over the life of a pager
MaxCalls == 5
\* generators (pages / __iter__ enumerations) created over one pager
MaxEnums == 2

\* a page served by the remote side is empty or carries MaxItems items
PageSizes == {0, MaxItems}

\* the two pager classes of the module
Classes == {"ListDocumentsPager", "PartitionQueryPager"}
\* the code that enumerates a pager: two consumers holding their own generator
Consumers == {"c1", "c2"}

VARIABLES
    cls,            \* class of the pager under study
    chain,          \* remote side: the sequence of pages (responses) it serves
    faults,         \* remote side: the calls numbered 1..faults may raise
    heap,           \* request objects by reference
    caller_request, \* reference of the request the caller passed to __init__
    _request,       \* self._request: reference of the pager's request
    _response,      \* self._response: the most recent response
    gen,            \* per consumer: the generator it holds
    out,            \* per consumer: values its current generator has yielded
    log,            \* every invocation of self._method that has returned or
                    \* raised, in the order they ended
    enums,          \* number of generators created so far
    overlapped,     \* some consumer has taken a step while another consumer
                    \* was inside a next() on its generator: two executions
                    \* of next() have overlapped in time
    ret             \* what the last operation returned, when it was a
                    \* passthrough read or a display

vars == <<cls, chain, faults, heap, caller_request, _request, _response,
          gen, out, log, enums, overlapped, ret>>

\* ------------------------------------------------------------------------
\* Messages
\* ------------------------------------------------------------------------
\* name of the repeated item field of the class's response type
ItemField(k) == IF k = "ListDocumentsPager" THEN "documents" ELSE "partitions"

\* page tokens; the empty string is falsy in `while ...next_page_token:`
Token(i) == <<"T1", "T2", "T3", "T4", "T5">>[i]
EmptyToken == ""

\* item j of page i
Item(i, j) == <<i, j>>

\* a response of class k
Response(k, items, tok) ==
    IF k = "ListDocumentsPager"
    THEN [documents |-> items, next_page_token |-> tok]
    ELSE [partitions |-> items, next_page_token |-> tok]

\* the chain of n pages whose page i carries lens[i] items: page i < n names
\* page i+1 by Token(i), page n has the empty token
Chain(k, n, lens) ==
    [i \in 1..n |->
        Response(k, [j \in 1..lens[i] |-> Item(i, j)],
                 IF i < n THEN Token(i) ELSE EmptyToken)]

\* the request the caller built for the first page
InitialRequest == [parent |-> "projects/p/databases/d", page_token |-> EmptyToken]

\* index in the chain of the page that a page token asks for
PageFor(tok) ==
    IF tok = EmptyToken THEN 1
    ELSE 1 + (CHOOSE i \in 1..5 : Token(i) = tok)

\* position in the chain of a response of the chain
PageIndex(ch, r) == CHOOSE i \in 1..Len(ch) : ch[i] = r

\* the caller supplied method: call number n with request req either raises
\* (n is one of the failing calls fl) or returns the page the request's token
\* asks for
method(ch, fl, req, n) ==
    IF n \in fl
    THEN [ok |-> FALSE, error |-> [type |-> "FetchError", call |-> n]]
    ELSE [ok |-> TRUE, value |-> ch[PageFor(req.page_token)]]

\* ------------------------------------------------------------------------
\* Construction
\* ------------------------------------------------------------------------
\* RequestCopy, handing back the argument itself instead of a copy
RequestCopy_alias(h, ref) == [heap |-> h, ref |-> ref]

\* firestore.ListDocumentsRequest(request) / firestore.PartitionQueryRequest(
\* request): a new message object holding a copy of the argument's fields
RequestCopy(h, ref) ==
    [heap |-> [r \in DOMAIN h \cup {"copy"} |-> IF r = "copy" THEN h[ref] ELSE h[r]],
     ref  |-> "copy"]

\* __init__(self, method, request, response)
__init__(h, request, response) ==
    LET made == RequestCopy(h, request)
    IN  [heap |-> made.heap, _request |-> made.ref, _response |-> response]

\* __getattr__(self, name)
__getattr__(response, name) == response[name]

\* __repr__(self)
__repr__(k, response) == <<k, "<", response, ">">>

\* ------------------------------------------------------------------------
\* Generators
\* ------------------------------------------------------------------------
NoError == [type |-> "None", call |-> 0]
\* a generator: its position pc, for `__iter__` the page it delegates to and
\* the number of its items yielded, the exception that ended it, the token
\* it has loaded for the write of line 68, while it waits inside
\* self._method the call it made, and the response the method returned to it
\* until line 69 has stored it.  Positions: "created" (not started),
\* "suspended" (at a yield), "L67" (about to evaluate the loop condition),
\* "L68" (condition found true, about to load the token), "L68w" (token
\* loaded, about to write it into the request), "L69" (about to have the
\* method read the request), "calling" (inside the method), "L69s" (the
\* method has returned, about to assign self._response), "L70" (response
\* stored, about to load and yield it), "raised", "done".
NoGen == [kind |-> "none", pc |-> "none", page |-> 0, idx |-> 0, exc |-> NoError,
          tok |-> "", call |-> <<>>, got |-> <<>>]
NewGen(kind) == [kind |-> kind, pc |-> "created", page |-> 0, idx |-> 0, exc |-> NoError,
                 tok |-> "", call |-> <<>>, got |-> <<>>]

\* positions at which a generator is running, inside a next() of its consumer
Inside == {"L67", "L68", "L68w", "L69", "calling", "L69s", "L70"}

\* result of one step of a generator, an access to the state the generators
\* share: the pager state S it leaves, the generator's new
\* position, and the outcome: what next() gave its caller (yield,
\* StopIteration, raise), "run" when the generator is still running (value
\* being the token loaded, at position "L68w", or the response the method
\* returned, at position "L69s"), or "call" when the method has read its
\* request, value being the request as read
Result(S, pc, outcome, value, exc) ==
    [S |-> S, pc |-> pc, outcome |-> outcome, value |-> value, exc |-> exc]

\* the call a generator waits in after a step with outcome "call": the request
\* the method read and the response that was stored at that time
InFlight(r) == <<[request |-> r.value, current |-> r.S._response]>>

\* generator g after a step with result r
After(g, r) ==
    [g EXCEPT !.pc = r.pc, !.exc = r.exc,
              !.tok = IF r.pc = "L68w" THEN r.value ELSE "",
              !.call = IF r.outcome = "call" THEN InFlight(r) ELSE <<>>,
              !.got = IF r.pc = "L69s" THEN <<r.value>> ELSE <<>>]

\* more_pages, also requiring the current page to carry items
more_pages_nonempty(response) ==
    /\ response.next_page_token # EmptyToken
    /\ \E f \in DOMAIN response \ {"next_page_token"} : response[f] # <<>>

\* loop condition (line 67):
\*     while self._response.next_page_token:
more_pages(response) == response.next_page_token # EmptyToken

\* fetched, keeping the first response and taking over only the new token
fetched_keep_first(S, page) ==
    Result([S EXCEPT !._response.next_page_token = page.next_page_token],
           "L70", "run", 0, NoError)

\* line 69, the assignment: the response the method returned is stored
\*     self._response = <page>
fetched(S, page) == Result([S EXCEPT !._response = page], "L70", "run", 0, NoError)

\* line 69, self._method has returned page: the generator holds it, nothing
\* is stored yet
returned(S, l1, page) == Result([S EXCEPT !.log = l1], "L69s", "run", page, NoError)

\* failed, with the exception caught and the enumeration ended quietly
failed_swallow(S, h1, l1, err) ==
    Result([S EXCEPT !.heap = h1, !.log = l1], "done", "StopIteration", 0, NoError)

\* failed, with the request token put back to the one that led to the
\* stored response
failed_rollback(S, h1, l1, err) ==
    Result([S EXCEPT !.log = l1,
                     !.heap = [h1 EXCEPT ![S._request].page_token =
                                  IF \E i \in 1..5 : Token(i) = S._response.next_page_token
                                  THEN LET i == CHOOSE j \in 1..5 :
                                                    Token(j) = S._response.next_page_token
                                       IN  IF i = 1 THEN EmptyToken ELSE Token(i - 1)
                                  ELSE h1[S._request].page_token]],
           "raised", "raise", err, err)

\* failed, with the pager marked exhausted: the stored response loses its
\* next_page_token
failed_exhaust(S, h1, l1, err) ==
    Result([S EXCEPT !.heap = h1, !.log = l1,
                     !._response = [S._response EXCEPT !.next_page_token = EmptyToken]],
           "raised", "raise", err, err)

\* self._method raised err: the exception leaves the generator, which is
\* finished; the assignment to self._response never ran
failed(S, h1, l1, err) ==
    Result([S EXCEPT !.heap = h1, !.log = l1], "raised", "raise", err, err)

\* begin, made restartable: every new enumeration asks the method for the
\* first page again
begin_restart(ch, fl, S) ==
    LET h1 == [S.heap EXCEPT ![S._request].page_token = EmptyToken]
    IN  Result([S EXCEPT !.heap = h1], "L69", "run", 0, NoError)

\* begin, resuming where a failed enumeration stopped: when the last
\* invocation raised, the stored page is not yielded again and the loop is
\* entered at once
begin_no_duplicate(ch, fl, S) ==
    IF S.log = <<>> \/ S.log[Len(S.log)].ok
    THEN Result(S, "suspended", "yield", S._response, NoError)
    ELSE Result(S, "L67", "run", 0, NoError)

\* begin, with a prefetch: the first page is yielded, but the page after it
\* has already been asked for and stored
begin_prefetch(ch, fl, S) ==
    IF ~more_pages(S._response)
    THEN Result(S, "suspended", "yield", S._response, NoError)
    ELSE LET h1 == [S.heap EXCEPT ![S._request].page_token = S._response.next_page_token]
             r  == method(ch, fl, h1[S._request], Len(S.log) + 1)
             l1 == Append(S.log, [request |-> h1[S._request],
                                  current |-> S._response,
                                  ok      |-> r.ok])
         IN  Result([S EXCEPT !.heap = h1, !.log = l1,
                              !._response = IF r.ok THEN r.value ELSE S._response],
                    "suspended", "yield", S._response, NoError)

\* first resumption of a `pages` generator (line 66):
\*     yield self._response
begin(ch, fl, S) == Result(S, "suspended", "yield", S._response, NoError)

\* line 67: the loop condition is evaluated on the response stored now
loop(S) ==
    IF more_pages(S._response)
    THEN Result(S, "L68", "run", 0, NoError)
    ELSE Result(S, "done", "StopIteration", 0, NoError)

\* line 68, right-hand side: the token of the response stored now is loaded
\*     ... = self._response.next_page_token
load_token(S) == Result(S, "L68w", "run", S._response.next_page_token, NoError)

\* advance, writing the token of the response stored now instead of the
\* token that was loaded
advance_swapped(ch, fl, S, tok) ==
    LET h1 == [S.heap EXCEPT ![S._request].page_token =
                                 IF S._response.next_page_token = tok
                                 THEN S.heap[S._request].page_token
                                 ELSE S._response.next_page_token]
    IN  Result([S EXCEPT !.heap = h1], "L69", "run", 0, NoError)

\* line 68, assignment: the token loaded is written into the pager's request
\*     self._request.page_token = ...
advance(ch, fl, S, tok) ==
    LET h1 == [S.heap EXCEPT ![S._request].page_token = tok]
    IN  Result([S EXCEPT !.heap = h1], "L69", "run", 0, NoError)

\* line 69, the call: self._method(self._request) is given the pager's
\* request object and reads it; the step is the moment of that read
enter(S) == Result(S, "calling", "call", S.heap[S._request], NoError)

\* line 69, the end of the call made with call.request: the method returns
\* a response or its exception leaves the generator
method_returns(ch, fl, S, call) ==
    LET r  == method(ch, fl, call.request, Len(S.log) + 1)
        l1 == Append(S.log, [request |-> call.request,
                             current |-> call.current,
                             ok      |-> r.ok])
    IN  IF r.ok THEN returned(S, l1, r.value) ELSE failed(S, S.heap, l1, r.error)

\* line 70: the response stored now is loaded and yielded
\*     yield self._response
yield_response(S) == Result(S, "suspended", "yield", S._response, NoError)

\* One step of a `pages` generator g on the pager state S = [heap, _request,
\* _response, log]: from its position, one access to the pager.
pages_resume(ch, fl, g, S) ==
    CASE g.pc = "created"                -> begin(ch, fl, S)
      [] g.pc \in {"suspended", "L67"}   -> loop(S)
      [] g.pc = "L68"                    -> load_token(S)
      [] g.pc = "L68w"                   -> advance(ch, fl, S, g.tok)
      [] g.pc = "L69"                    -> enter(S)
      [] g.pc = "calling"                -> method_returns(ch, fl, S, g.call[1])
      [] g.pc = "L69s"                   -> fetched(S, g.got[1])
      [] g.pc = "L70"                    -> yield_response(S)
      [] OTHER \* a generator that has returned or raised is finished
                                         -> Result(S, "done", "StopIteration", 0, NoError)

\* has_item, off by one: the last item of every page is never yielded
has_item_drop_last(k, g) == g.idx + 1 < Len(g.page[ItemField(k)])

\* has_item, with the two classes apart: PartitionQueryPager never yields the
\* last partition of a page
has_item_one_class(k, g) ==
    IF k = "PartitionQueryPager"
    THEN g.idx + 1 < Len(g.page[ItemField(k)])
    ELSE g.idx < Len(g.page[ItemField(k)])

\* `yield from page.documents` / `yield from page.partitions` has an item left
has_item(k, g) == g.idx < Len(g.page[ItemField(k)])

\* One step of an `__iter__` generator g: from its position, the yield of
\* the next item of its page or one access to the pager:
\*     for page in self.pages: yield from page.<field>
\* The inner pages generator is created by the first resumption; its position
\* is g's.  A page it yields goes to the `for` loop, which yields the first
\* item or, the page having none, resumes the inner generator (line 67).
iter_resume(k, ch, fl, g, S) ==
    IF g.pc = "suspended" /\ has_item(k, g)
    THEN [S |-> S, g |-> [g EXCEPT !.idx = g.idx + 1],
          outcome |-> "yield", value |-> g.page[ItemField(k)][g.idx + 1]]
    ELSE CHOOSE res \in
             { IF r.outcome = "yield"
               THEN LET g1 == [After(g, r) EXCEPT !.page = r.value, !.idx = 0]
                    IN  IF has_item(k, g1)
                        THEN [S |-> r.S, g |-> [g1 EXCEPT !.idx = 1],
                              outcome |-> "yield", value |-> r.value[ItemField(k)][1]]
                        ELSE [S |-> r.S, g |-> [g1 EXCEPT !.pc = "L67"],
                              outcome |-> "run", value |-> 0]
               ELSE [S |-> r.S, g |-> After(g, r),
                     outcome |-> r.outcome, value |-> r.value]
               : r \in {pages_resume(ch, fl, g, S)} } : TRUE

\* One run of a `pages` generator g, as iter_resume gives it: the pager
\* state, the generator afterwards, the outcome and the value
pages_step(ch, fl, g, S) ==
    CHOOSE res \in
        { [S |-> r.S, g |-> After(g, r), outcome |-> r.outcome, value |-> r.value]
          : r \in {pages_resume(ch, fl, g, S)} } : TRUE

\* positions at which a generator is executing code of the pager
Running == Inside \ {"calling"}

\* Generator g runs on its consumer's thread, one access to the pager after
\* the other, until next() gives the consumer something (yield,
\* StopIteration, raise) or the method has read its request and the thread
\* waits (call); after any access before that the thread may be switched
\* out (run).  The results a run can stop with, in
\* the order of the accesses; the last one is that of the run left alone.
RECURSIVE runs(_, _, _, _, _)
runs(k, ch, fl, g, S) ==
    CHOOSE rs \in
        { IF r.outcome # "run"
          THEN <<r>>
          ELSE <<r>> \o runs(k, ch, {}, r.g, r.S)
          : r \in {IF g.kind = "pages"
                   THEN pages_step(ch, fl, g, S)
                   ELSE iter_resume(k, ch, fl, g, S)} } : TRUE

\* the run of g when its thread is not switched out
run(k, ch, fl, g, S) ==
    CHOOSE r \in {rs[Len(rs)] : rs \in {runs(k, ch, fl, g, S)}} : TRUE

\* ------------------------------------------------------------------------
\* State machine
\* ------------------------------------------------------------------------
\* the last operation was neither a passthrough read nor a display
NoRead == [op |-> "none", name |-> "", value |-> 0]

PagerState == [heap |-> heap, _request |-> _request, _response |-> _response, log |-> log]

\* a freshly constructed pager over a remote side whose first nfaults calls may
\* raise
Setup(nfaults) ==
    /\ cls \in Classes
    /\ faults = nfaults
    /\ \E n \in 1..MaxPages : \E lens \in [1..n -> PageSizes] :
           chain = Chain(cls, n, lens)
    /\ caller_request = "caller"
    /\ LET made == __init__([r \in {"caller"} |-> InitialRequest], "caller", chain[1])
       IN  /\ heap = made.heap
           /\ _request = made._request
           /\ _response = made._response
    /\ gen = [c \in Consumers |-> NoGen]
    /\ out = [c \in Consumers |-> <<>>]
    /\ log = <<>>
    /\ enums = 0
    /\ overlapped = FALSE
    /\ ret = NoRead

Init == Setup(MaxFaultCall)

\* what the remote side may do with the call that ends next: serve it (0),
\* or raise when it is one of the first `faults` calls to end
Failing == {0} \cup {n \in {Len(log) + 1} : n <= faults}

\* invocations of the method made so far: those that ended and those a
\* generator waits in
Started == Len(log) + Cardinality({c \in Consumers : gen[c].pc = "calling"})

\* consumer c takes a step while another consumer is inside a next()
Overlaps(c) == \E d \in Consumers \ {c} : gen[d].pc \in Inside

\* consumer c takes a step, at any moment: the pager holds no lock
Scheduled(c) == overlapped' = (overlapped \/ Overlaps(c))

\* the run of c's generator with result r is recorded: pager state,
\* generator, what next() gave c
Ran(c, r) ==
    /\ r.outcome = "call" => Started < MaxCalls
    /\ Scheduled(c)
    /\ heap' = r.S.heap
    /\ _response' = r.S._response
    /\ log' = r.S.log
    /\ gen' = [gen EXCEPT ![c] = r.g]
    /\ out' = [out EXCEPT ![c] = IF r.outcome = "yield" THEN Append(@, r.value) ELSE @]
    /\ ret' = NoRead
    /\ UNCHANGED <<cls, chain, faults, caller_request, _request, enums>>

\* consumer c evaluates pager.pages: a new generator, nothing runs yet (c is
\* not inside a next() of its own)
pages(c) ==
    /\ enums < MaxEnums
    /\ gen[c].pc \notin Inside
    /\ gen' = [gen EXCEPT ![c] = NewGen("pages")]
    /\ out' = [out EXCEPT ![c] = <<>>]
    /\ enums' = enums + 1
    /\ Scheduled(c)
    /\ ret' = NoRead
    /\ UNCHANGED <<cls, chain, faults, heap, caller_request, _request, _response, log>>

\* consumer c evaluates iter(pager): a new generator, nothing runs yet
iter(c) ==
    /\ enums < MaxEnums
    /\ gen[c].pc \notin Inside
    /\ gen' = [gen EXCEPT ![c] = NewGen("iter")]
    /\ out' = [out EXCEPT ![c] = <<>>]
    /\ enums' = enums + 1
    /\ Scheduled(c)
    /\ ret' = NoRead
    /\ UNCHANGED <<cls, chain, faults, heap, caller_request, _request, _response, log>>

\* consumer c calls next() on its pages generator, which runs until it
\* yields or ends, waits inside the method, or is switched out
pages_next(c) ==
    /\ gen[c].kind = "pages"
    /\ gen[c].pc \notin Inside
    /\ \E rs \in {runs(cls, chain, {}, gen[c], PagerState)} :
       \E i \in 1..Len(rs) : Ran(c, rs[i])

\* c's thread, switched out while its pages generator was running, is
\* switched in again and the generator runs on
pages_runs(c) ==
    /\ gen[c].kind = "pages"
    /\ gen[c].pc \in Running
    /\ \E rs \in {runs(cls, chain, {}, gen[c], PagerState)} :
       \E i \in 1..Len(rs) : Ran(c, rs[i])

\* the method called by c's pages generator returns or raises, and the
\* generator runs on until next() gives c a page or the exception, or the
\* thread is switched out
pages_returns(c) ==
    /\ gen[c].kind = "pages"
    /\ gen[c].pc = "calling"
    /\ \E f \in Failing :
       \E rs \in {runs(cls, chain, {f}, gen[c], PagerState)} :
       \E i \in 1..Len(rs) : Ran(c, rs[i])

\* consumer c calls next() on its __iter__ generator, which runs until it
\* yields or ends, waits inside the method, or is switched out
iter_next(c) ==
    /\ gen[c].kind = "iter"
    /\ gen[c].pc \notin Inside
    /\ \E rs \in {runs(cls, chain, {}, gen[c], PagerState)} :
       \E i \in 1..Len(rs) : Ran(c, rs[i])

\* c's thread, switched out while its __iter__ generator was running, is
\* switched in again and the generator runs on
iter_runs(c) ==
    /\ gen[c].kind = "iter"
    /\ gen[c].pc \in Running
    /\ \E rs \in {runs(cls, chain, {}, gen[c], PagerState)} :
       \E i \in 1..Len(rs) : Ran(c, rs[i])

\* the method called inside c's __iter__ generator returns or raises, and the
\* generator runs on until next() gives c an item or the exception, the
\* enumeration ends, the generator is inside the method again, or the thread
\* is switched out
iter_returns(c) ==
    /\ gen[c].kind = "iter"
    /\ gen[c].pc = "calling"
    /\ \E f \in Failing :
       \E rs \in {runs(cls, chain, {f}, gen[c], PagerState)} :
       \E i \in 1..Len(rs) : Ran(c, rs[i])

\* the caller reads attribute name of the pager, which the pager does not
\* define itself: the read goes to the current response
getattr(name) ==
    /\ name \in DOMAIN _response
    /\ ret' = [op |-> "getattr", name |-> name, value |-> __getattr__(_response, name)]
    /\ UNCHANGED <<cls, chain, faults, heap, caller_request, _request, _response,
                   gen, out, log, enums, overlapped>>

\* the caller displays the pager
repr ==
    /\ ret' = [op |-> "repr", name |-> "", value |-> __repr__(cls, _response)]
    /\ UNCHANGED <<cls, chain, faults, heap, caller_request, _request, _response,
                   gen, out, log, enums, overlapped>>

Next ==
    \E c \in Consumers :
        \/ pages(c)
        \/ iter(c)
        \/ pages_next(c)
        \/ pages_runs(c)
        \/ pages_returns(c)
        \/ iter_next(c)
        \/ iter_runs(c)
        \/ iter_returns(c)

\* a pager of either class
Spec == Init /\ [][Next]_vars

\* a ListDocumentsPager
ListInit == Init /\ cls = "ListDocumentsPager"

SpecList == ListInit /\ [][Next]_vars

\* a ListDocumentsPager over a remote side that never fails
FairInit == Setup(0) /\ cls = "ListDocumentsPager"

\* its consumers, once they hold a generator, keep calling next() on it; a
\* generator that runs goes on and the method answers
FairSpec ==
    /\ FairInit /\ [][Next]_vars
    /\ \A c \in Consumers : /\ WF_vars(pages_next(c)) /\ WF_vars(pages_runs(c))
                           /\ WF_vars(pages_returns(c))
                           /\ WF_vars(iter_next(c)) /\ WF_vars(iter_runs(c))
                           /\ WF_vars(iter_returns(c))

\* the enumerations together with the passthrough reads and the display, over
\* a ListDocumentsPager
NextRead ==
    \/ Next
    \/ \E name \in {"next_page_token"} : getattr(name)
    \/ repr

SpecRead == ListInit /\ [][NextRead]_vars

TypeOK ==
    /\ cls \in Classes
    /\ faults \in 0..MaxFaultCall
    /\ enums \in 0..MaxEnums
    /\ overlapped \in BOOLEAN
    /\ Len(log) <= MaxCalls
    /\ \A c \in Consumers :
           gen[c].pc \in {"none", "created", "suspended", "raised", "done"} \cup Inside

\* ------------------------------------------------------------------------
\* Vocabulary of the properties
\* ------------------------------------------------------------------------
\* no invocation of self._method has raised so far
NoFailure == \A i \in 1..Len(log) : log[i].ok

\* c holds the only generator ever created over the pager
Sole(c) == enums = 1 /\ gen[c].kind # "none"

\* the concatenation of the item fields of the pages of a sequence
RECURSIVE FlatMap(_, _)
FlatMap(pgs, field) ==
    IF pgs = <<>> THEN <<>> ELSE pgs[1][field] \o FlatMap(Tail(pgs), field)

\* what a full enumeration of `pages` yields on a freshly constructed pager
\* over chain ch whose method never raises
RECURSIVE Drain(_, _, _)
Drain(ch, g, S) ==
    LET r == run("ListDocumentsPager", ch, {}, g, S)
    IN  IF r.outcome = "yield" THEN <<r.value>> \o Drain(ch, r.g, r.S)
        ELSE IF r.outcome = "call" THEN Drain(ch, r.g, r.S)
        ELSE <<>>
FreshPages(ch) ==
    LET made == __init__([r \in {"caller"} |-> InitialRequest], "caller", ch[1])
    IN  Drain(ch, NewGen("pages"), [heap |-> made.heap, _request |-> made._request,
                                    _response |-> made._response, log |-> <<>>])

\* the invocation of self._method that ended last
LastCall == log[Len(log)]

\* no two executions of next() have overlapped in time so far
Sequential == ~overlapped

\* no consumer is inside a next(): no advance is under way
NoneInside == \A c \in Consumers : gen[c].pc \notin Inside

\* the method called by c's generator raises in this step
Raises(c) == gen[c].pc = "calling" /\ gen'[c].pc = "raised"

\* the method called by c's generator returns or raises in this step
Ends(c) == gen[c].pc = "calling" /\ Len(log') = Len(log) + 1 /\ gen'[c] # gen[c]

\* c's generator enters the method in this step
Enters(c) ==
    /\ gen'[c].pc = "calling"
    /\ gen'[c].kind = gen[c].kind
    /\ gen[c].pc # "calling" \/ Len(log') = Len(log) + 1

\* ------------------------------------------------------------------------
\* C1  A single full enumeration of `pages` on a freshly constructed pager
\*     over a chain of N pages, with no fetch failing, yields exactly the N
\*     responses of the chain in order and has invoked the method exactly
\*     N-1 times (never, when N = 1).
\* ------------------------------------------------------------------------
C1_PagesYieldsChain ==
    \A c \in Consumers :
        (Sole(c) /\ gen[c].kind = "pages" /\ gen[c].pc = "done" /\ NoFailure)
            => /\ out[c] = chain
               /\ Len(log) = Len(chain) - 1

C1_Witness ==
    \E c \in Consumers :
        /\ Sole(c) /\ gen[c].kind = "pages" /\ gen[c].pc = "done" /\ NoFailure
        /\ Len(chain) = MaxPages
        /\ Len(out[c]) = MaxPages
        /\ Len(log) = MaxPages - 1

\* ------------------------------------------------------------------------
\* C2  A single full enumeration of `__iter__` on a freshly constructed
\*     pager, with no fetch failing, yields the concatenation of every
\*     page's item field in page order and in order within each page: the
\*     flat map of the field accessor over what `pages` yields.
\* ------------------------------------------------------------------------
C2_ItemsIsFlatMap ==
    \A c \in Consumers :
        (Sole(c) /\ gen[c].kind = "iter" /\ gen[c].pc = "done" /\ NoFailure)
            => /\ out[c] = FlatMap(FreshPages(chain), ItemField(cls))
               /\ out[c] = FlatMap(chain, ItemField(cls))

C2_Witness ==
    \E c \in Consumers :
        /\ Sole(c) /\ gen[c].kind = "iter" /\ gen[c].pc = "done" /\ NoFailure
        /\ Len(chain) >= 2
        /\ \A i \in 1..Len(chain) : Len(chain[i][ItemField(cls)]) = MaxItems
        /\ Len(out[c]) = Len(chain) * MaxItems

\* ------------------------------------------------------------------------
\* C3  After the only `pages` enumeration has been consumed through page k,
\*     every passthrough attribute read on the pager returns the value of
\*     that field on page k of the chain, also while the advance to page
\*     k+1 is under way, until that advance has stored page k+1.
\* ------------------------------------------------------------------------
C3_PassthroughLatest ==
    \A c \in Consumers :
        (Sole(c) /\ gen[c].kind = "pages" /\ Len(out[c]) >= 1 /\ gen[c].pc # "L70")
            => \A name \in {ItemField(cls), "next_page_token"} :
                   __getattr__(_response, name) = chain[Len(out[c])][name]

C3_Witness ==
    \E c \in Consumers :
        /\ Sole(c) /\ gen[c].kind = "pages" /\ Len(out[c]) = 2
        /\ gen[c].pc = "calling"
        /\ Len(chain) = 3
        /\ chain[1][ItemField(cls)] # chain[2][ItemField(cls)]
        /\ __getattr__(_response, "next_page_token") = Token(2)
        /\ __getattr__(_response, ItemField(cls)) = chain[2][ItemField(cls)]

\* ------------------------------------------------------------------------
\* C4  When the method raises while a `pages` generator advances from page k to
\*     page k+1: the error the method raised is the error next() raises,
\*     the generator yields nothing in that step nor afterwards, the method
\*     was invoked exactly once by that step, and the stored response is
\*     unchanged (still page k); in the only enumeration of a fresh pager
\*     the pages yielded so far are pages 1..k.
\* ------------------------------------------------------------------------
C4_Failing(c) ==
    /\ gen[c].kind = "pages" /\ gen'[c] # gen[c]
    /\ Len(log') > Len(log) /\ ~log'[Len(log')].ok

C4_FailureStep ==
    \A c \in Consumers :
        /\ C4_Failing(c) =>
               /\ Len(log') = Len(log) + 1
               /\ gen'[c].pc = "raised"
               /\ gen'[c].exc = [type |-> "FetchError", call |-> Len(log')]
               /\ out'[c] = out[c]
               /\ _response' = _response
               /\ Sole(c) => out[c] = SubSeq(chain, 1, PageIndex(chain, _response))
        /\ (gen[c].kind = "pages" /\ gen[c].pc = "raised" /\ gen'[c].pc # "created")
               => /\ out'[c] = out[c]
                  /\ gen'[c] # gen[c] => (gen'[c].pc = "done" /\ log' = log)

C4_FetchFailure == [][C4_FailureStep]_vars

C4_Witness ==
    \E c \in Consumers :
        /\ Sole(c) /\ gen[c].kind = "pages" /\ gen[c].pc = "raised"
        /\ Len(chain) = 3 /\ Len(out[c]) = 2
        /\ _response = chain[2]
        /\ Len(log) = 2 /\ log[1].ok /\ ~log[2].ok
        /\ gen[c].exc = [type |-> "FetchError", call |-> 2]

\* ------------------------------------------------------------------------
\* C5  (as claimed) When the method raises for a generator that was
\*     advancing past page k, the pager's request carries page k's
\*     next_page_token, the token of the failed attempt.
\* ------------------------------------------------------------------------
C5_AsClaimed_Step ==
    \A c \in Consumers :
        Raises(c) => heap'[_request].page_token
                        = gen[c].call[1].current.next_page_token
C5_AsClaimed == [][C5_AsClaimed_Step]_vars

\* ------------------------------------------------------------------------
\* C5  A failed fetch does not roll back the request token: the step in
\*     which the method raises leaves the pager's request and response as
\*     they are.  Provided no two executions of next() have overlapped,
\*     while the invocation that ended last is a failed one the request
\*     carries the token of that failed attempt, which is the
\*     next_page_token of the stored response, and the invocation that
\*     follows a failed one is made with the same token.
\* ------------------------------------------------------------------------
C5_Inv ==
    Sequential =>
        /\ (Len(log) > 0 /\ ~LastCall.ok)
               => /\ heap[_request].page_token = LastCall.request.page_token
                  /\ heap[_request].page_token = _response.next_page_token
                  /\ heap[_request].page_token # EmptyToken
        /\ \A i \in 1..(Len(log) - 1) :
               ~log[i].ok => log[i + 1].request.page_token = log[i].request.page_token
C5_Step ==
    \A c \in Consumers :
        Raises(c) => /\ heap' = heap
                     /\ _response' = _response
                     /\ Sequential =>
                            heap'[_request].page_token
                                = gen[c].call[1].current.next_page_token
C5_NoRollback == []C5_Inv /\ [][C5_Step]_vars

C5_Witness ==
    /\ Len(log) = 3
    /\ log[1].ok /\ ~log[2].ok /\ log[3].ok
    /\ log[2].request.page_token = Token(2)
    /\ log[3].request.page_token = Token(2)
    /\ enums = 2
    /\ Sequential

\* ------------------------------------------------------------------------
\* C6  The pager is not safe for interleaved use by two consumers: both
\*     generators read and overwrite the same _request and _response, so a
\*     page fetched by one is missed by the other.  Of two consumers that
\*     both began at page 1, a later page is observed by both only when
\*     their executions of next() overlapped; otherwise each page after the
\*     first is skipped by at least one of them, while page 1 was yielded
\*     twice.
\* ------------------------------------------------------------------------
\* the pages of the chain consumer c's generator has observed
Observed(c) ==
    IF gen[c].kind = "pages"
    THEN {PageIndex(chain, out[c][i]) : i \in 1..Len(out[c])}
    ELSE {out[c][i][1] : i \in 1..Len(out[c])}

C6_InterleavedRace ==
    \A c, d \in Consumers :
        (c # d /\ 1 \in Observed(c) /\ 1 \in Observed(d))
            => \A j \in 2..Len(chain) :
                   (j \in Observed(c) /\ j \in Observed(d))
                       => overlapped

C6_Witness ==
    /\ NoFailure /\ Len(chain) = 3
    /\ gen["c1"].kind = "pages" /\ gen["c1"].pc = "done"
    /\ gen["c2"].kind = "pages" /\ gen["c2"].pc = "done"
    /\ out["c1"] = <<chain[1], chain[2]>>
    /\ out["c2"] = <<chain[1], chain[3]>>

\* ------------------------------------------------------------------------
\* C7  (as claimed) `pages` is not restartable: once the pager has been
\*     advanced to page k, the stored response, which is what a `pages`
\*     enumeration started from then on yields first, is never a page before
\*     page k again.
\* ------------------------------------------------------------------------
C7_AsClaimed_Step == PageIndex(chain, _response') >= PageIndex(chain, _response)
C7_AsClaimed == [][C7_AsClaimed_Step]_vars

\* ------------------------------------------------------------------------
\* C7  `pages` is not restartable: a new `pages` generator begins by
\*     yielding the stored current response.  Provided no two executions of
\*     next() have overlapped, the pager's position in the chain never moves
\*     back, every page a generator yields is at or after the pager's
\*     position, the pages one generator yields are strictly increasing,
\*     and every fetch asks for the page right after the stored one, never
\*     for a page at or before it.
\* ------------------------------------------------------------------------
C7_Step ==
    /\ ~overlapped' => PageIndex(chain, _response') >= PageIndex(chain, _response)
    /\ \A c \in Consumers :
           /\ (gen[c].kind = "pages" /\ gen[c].pc = "created" /\ gen'[c].pc = "suspended")
                  => out'[c] = <<_response>>
           /\ (gen'[c].kind = "pages" /\ Len(out'[c]) > Len(out[c]) /\ ~overlapped')
                  => PageIndex(chain, out'[c][Len(out'[c])]) >= PageIndex(chain, _response)
    /\ ~overlapped' =>
           \A i \in (Len(log) + 1)..Len(log') :
               /\ PageFor(log'[i].request.page_token) = PageIndex(chain, log'[i].current) + 1
               /\ PageFor(log'[i].request.page_token) = PageIndex(chain, _response) + 1

C7_Increasing ==
    \A c \in Consumers :
        (gen[c].kind = "pages" /\ Sequential) =>
            \A i, j \in 1..Len(out[c]) :
                i < j => PageIndex(chain, out[c][i]) < PageIndex(chain, out[c][j])

C7_NotRestartable == [][C7_Step]_vars /\ []C7_Increasing

C7_Witness ==
    \E c \in Consumers :
        /\ enums = 2 /\ gen[c].kind = "pages" /\ gen[c].pc = "done"
        /\ Len(chain) = 3
        /\ out[c] = <<chain[2], chain[3]>>
        /\ Len(log) = 2
        /\ log[1].request.page_token = Token(1)
        /\ log[2].request.page_token = Token(2)
        /\ Sequential

\* c's generator is suspended right after the yield of a response whose
\* next_page_token is empty (for `__iter__`, of the last item of such a page)
C8_AtEnd(c) ==
    /\ gen[c].pc = "suspended"
    /\ IF gen[c].kind = "pages"
       THEN out[c][Len(out[c])].next_page_token = EmptyToken
       ELSE /\ gen[c].page.next_page_token = EmptyToken
            /\ gen[c].idx = Len(gen[c].page[ItemField(cls)])

\* ------------------------------------------------------------------------
\* C8  (as claimed) An enumeration completes immediately after yielding the
\*     first response whose next_page_token is empty: resumed after such a
\*     yield, the generator ends.
\* ------------------------------------------------------------------------
C8_AsClaimed_Step ==
    \A c \in Consumers :
        (C8_AtEnd(c) /\ gen'[c] # gen[c] /\ gen'[c].pc # "created")
            => gen'[c].pc = "done"
C8_AsClaimed == [][C8_AsClaimed_Step]_vars

\* ------------------------------------------------------------------------
\* C8  Termination.  Provided no two executions of next() have overlapped:
\*     as long as the method has not failed, the consumers keep advancing
\*     and the method answers, the enumerations of `pages` and of `__iter__`
\*     under way all eventually complete, and an enumeration completes
\*     on the resumption that follows the yield of a response whose
\*     next_page_token is empty (for `__iter__`, the yield of the last item
\*     of such a page), without an invocation, so at most the last response
\*     a `pages` generator yields has an empty token; the only enumeration
\*     of a fresh pager ends on one.
\* ------------------------------------------------------------------------
C8_Unfinished == \E c \in Consumers : gen[c].pc \in {"created", "suspended"} \cup Inside

C8_Live == C8_Unfinished ~> (~C8_Unfinished \/ ~NoFailure \/ overlapped)

C8_Step ==
    \A c \in Consumers :
        (Sequential /\ C8_AtEnd(c) /\ gen'[c] # gen[c] /\ gen'[c].pc # "created")
            => /\ gen'[c].pc = "done"
               /\ out'[c] = out[c]
               /\ log' = log
               /\ heap' = heap

C8_Ends ==
    \A c \in Consumers :
        gen[c].kind = "pages" =>
            /\ Sequential =>
                   \A i \in 1..(Len(out[c]) - 1) : out[c][i].next_page_token # EmptyToken
            /\ (Sole(c) /\ NoFailure /\ gen[c].pc = "done")
                   => out[c][Len(out[c])].next_page_token = EmptyToken

C8_Termination ==
    /\ C8_Live
    /\ [][C8_Step]_vars
    /\ []C8_Ends

C8_Witness ==
    \E c \in Consumers :
        /\ NoFailure /\ Len(chain) = 3
        /\ gen[c].kind = "iter" /\ gen[c].pc = "done"
        /\ Len(out[c]) >= 1
        /\ out[c][Len(out[c])][1] = 3
        /\ Len(log) = 2

\* ------------------------------------------------------------------------
\* C9  The pager works on its own copy of the initial request: the request
\*     object the caller passed is never modified, whatever advances succeed
\*     or fail; only the pager's own request has its token updated, to the
\*     next_page_token of a page of the chain (the token of the latest
\*     invocation, when no advance is under way and none has overlapped).
\* ------------------------------------------------------------------------
C9_CallerRequestUntouched ==
    /\ heap[caller_request] = InitialRequest
    /\ heap[_request].parent = InitialRequest.parent
    /\ heap[_request].page_token \in
           {InitialRequest.page_token}
               \cup {chain[i].next_page_token : i \in 1..Len(chain)}
    /\ (Sequential /\ NoneInside)
           => heap[_request].page_token =
                  IF Len(log) = 0 THEN InitialRequest.page_token
                  ELSE LastCall.request.page_token

C9_Witness ==
    /\ heap[_request].page_token = Token(2)
    /\ heap[caller_request].page_token = EmptyToken
    /\ Len(log) = 2 /\ log[1].ok /\ ~log[2].ok

\* ------------------------------------------------------------------------
\* C10 (as claimed) Every invocation of the method is made with the request
\*     carrying the next-page-token of the response that was the stored
\*     current response immediately before the call; that token is never
\*     empty and never taken from an older response.
\* ------------------------------------------------------------------------
C10_AsClaimed ==
    \A i \in 1..Len(log) :
        /\ log[i].request.page_token = log[i].current.next_page_token
        /\ log[i].request.page_token # EmptyToken

\* ------------------------------------------------------------------------
\* C10 Every invocation of the method is made with the pager's request, its
\*     parent as the caller gave it.  Provided no two executions of next()
\*     have overlapped, the request carries the next-page-token of the
\*     response that was the stored current response immediately before the
\*     call; that token is never empty, and it is the token that names the
\*     page after that response (the first fetch over an initial response
\*     with next token "T1" is made with "T1").
\* ------------------------------------------------------------------------
C10_FetchToken ==
    \A i \in 1..Len(log) :
        /\ log[i].request.parent = InitialRequest.parent
        /\ Sequential =>
               /\ log[i].request.page_token = log[i].current.next_page_token
               /\ log[i].request.page_token # EmptyToken
               /\ log[i].request.page_token = Token(PageIndex(chain, log[i].current))

C10_Witness ==
    /\ Sequential
    /\ Len(log) = 2 /\ log[1].ok /\ log[2].ok
    /\ log[1].request.page_token = "T1"
    /\ log[1].current = chain[1]
    /\ log[2].request.page_token = "T2"
    /\ log[2].current = chain[2]

\* the invocations of self._method that returned
GoodCalls == {i \in 1..Len(log) : log[i].ok}

\* the response of the most recent invocation that returned, or the response
\* given at construction when none has
LatestFetched ==
    IF GoodCalls = {}
    THEN chain[1]
    ELSE LET i == CHOOSE j \in GoodCalls : \A k \in GoodCalls : k <= j
         IN  method(chain, {}, log[i].request, i).value

\* the pager is exhausted: the stored response carries no next_page_token
Exhausted == _response.next_page_token = EmptyToken

\* no generator holds a response the method returned to it and line 69 has
\* not stored yet
NoneStoring == \A c \in Consumers : gen[c].pc # "L69s"

\* ------------------------------------------------------------------------
\* C11 (as claimed) In every reachable state, every response returned
\*     having been stored by the advance that fetched it, the stored
\*     response is the result of the most recent invocation of the method
\*     that returned, or the response given at construction when no
\*     invocation has returned.
\* ------------------------------------------------------------------------
C11_AsClaimed == NoneStoring => _response = LatestFetched

\* ------------------------------------------------------------------------
\* C11 The stored response is always the response given at construction or
\*     the result of an invocation of the method that returned, and a step
\*     in which an invocation raised leaves it as it was.  Provided no two
\*     executions of next() have overlapped, it is the result of the most
\*     recent invocation that returned (once line 69 has stored it), or the
\*     response given at construction when no invocation has returned.
\* ------------------------------------------------------------------------
C11_Latest ==
    /\ _response \in {chain[1]} \cup {method(chain, {}, log[i].request, i).value :
                                         i \in GoodCalls}
    /\ (Sequential /\ NoneStoring) => _response = LatestFetched
    /\ \A c \in Consumers :
           (Sequential /\ gen[c].pc = "L69s")
               => /\ gen[c].got = <<LatestFetched>>
                  /\ _response = LastCall.current
C11_FailedStep ==
    (Len(log') = Len(log) + 1 /\ ~log'[Len(log')].ok) => _response' = _response
C11_SingleResponse == []C11_Latest /\ [][C11_FailedStep]_vars

\* a page was fetched, the next invocation raised, and the stored response
\* is still the fetched page
C11_Witness ==
    /\ Sequential
    /\ NoneStoring
    /\ Len(log) = 2
    /\ log[1].ok
    /\ ~log[2].ok
    /\ _response = chain[2]
    /\ _response # chain[1]

\* ------------------------------------------------------------------------
\* C12 (as claimed) Once the stored response carries an empty
\*     next_page_token, no step of any operation invokes the method or
\*     changes the stored request or the stored response.
\* ------------------------------------------------------------------------
C12_AsClaimed_Step ==
    Exhausted => /\ log' = log
                 /\ _request' = _request
                 /\ heap' = heap
                 /\ _response' = _response
C12_AsClaimed == [][C12_AsClaimed_Step]_vars

\* ------------------------------------------------------------------------
\* an advance has passed the loop test of line 67 and has not yet stored the
\* response it fetches (line 69)
Fetching(c) == gen[c].pc \in {"L68", "L68w", "L69", "calling", "L69s"}

\* ------------------------------------------------------------------------
\* C12 Once the stored response carries an empty next_page_token and no
\*     execution of next() is under way (it is enough that none is between
\*     its loop test and the store of the response it fetches), no
\*     operation (resuming an enumeration, starting a new `pages` or
\*     `__iter__`, a passthrough read, a display) invokes the method or
\*     changes the stored request or the stored response, and the pager
\*     stays in that condition.
\* ------------------------------------------------------------------------
C12_Step ==
    (Exhausted /\ \A c \in Consumers : ~Fetching(c))
        => /\ log' = log
           /\ _request' = _request
           /\ heap' = heap
           /\ _response' = _response
           /\ \A c \in Consumers : ~Fetching(c)'
C12_ExhaustedTerminal == [][C12_Step]_vars

\* the pager was driven to exhaustion by one enumeration, a second one was
\* started and ran to its end, and the pager was then read or displayed
C12_Witness ==
    /\ Exhausted
    /\ log # <<>>
    /\ enums = 2
    /\ \A c \in Consumers : gen[c].pc = "done"
    /\ ret.op \in {"getattr", "repr"}

\* ------------------------------------------------------------------------
\* C13 Fetching is lazy and one per advance.  Construction and the creation
\*     of a generator invoke the method zero times.  In a single `pages`
\*     enumeration, once the consumer has received k pages the method has
\*     returned exactly k-1 times (k times, between the return of page k+1
\*     and its yield), and has been invoked exactly as often when no
\*     invocation raised.  The resumption that yields the first page invokes
\*     nothing; a later page is yielded after the method returned, once,
\*     and is the page stored.
\* ------------------------------------------------------------------------
C13_Count ==
    /\ enums = 0 => log = <<>>
    /\ \A c \in Consumers :
           (Sole(c) /\ gen[c].kind = "pages" /\ out[c] # <<>>)
               => LET k == IF gen[c].pc \in {"L69s", "L70"}
                           THEN Len(out[c]) + 1 ELSE Len(out[c])
                  IN  /\ Cardinality(GoodCalls) = k - 1
                      /\ NoFailure => Len(log) = k - 1
C13_Step ==
    /\ enums' # enums => log' = log
    /\ \A c \in Consumers :
           (gen[c].kind = "pages" /\ Len(out'[c]) = Len(out[c]) + 1)
               => IF gen[c].pc = "created"
                  THEN log' = log /\ _response' = _response
                  ELSE /\ gen[c].pc \in {"calling", "L69s", "L70"}
                       /\ IF gen[c].pc = "calling"
                          THEN Len(log') = Len(log) + 1 /\ log'[Len(log')].ok
                          ELSE log' = log /\ log # <<>>
                       /\ _response' = out'[c][Len(out'[c])]
C13_LazyFetch == []C13_Count /\ [][C13_Step]_vars

\* one enumeration has handed over three pages after two invocations
C13_Witness ==
    \E c \in Consumers :
        /\ Sole(c)
        /\ gen[c].kind = "pages"
        /\ gen[c].pc = "suspended"
        /\ Len(out[c]) = 3
        /\ Len(log) = 2
        /\ NoFailure

\* ------------------------------------------------------------------------
\* C14 In an `__iter__` enumeration the method is invoked for the page after
\*     page k only once every item of page k has been yielded, and no item
\*     of page k is yielded after that invocation: what a single
\*     enumeration has yielded is all the items of the pages before the one
\*     it holds, then the items of that page yielded so far.  A resumption
\*     that finds an item left in the held page yields it and invokes
\*     nothing; a generator is inside a resumption past its yields, and
\*     enters the method, only with no item of its page left, a single one having then yielded every item of the pages up to
\*     the stored one; the method is entered only inside a resumption, so a
\*     consumer that stops resuming causes no further invocation.
\* ------------------------------------------------------------------------
C14_Order ==
    \A c \in Consumers :
      /\ (gen[c].kind = "iter" /\ gen[c].pc \in Inside)
            => gen[c].idx = Len(gen[c].page[ItemField(cls)])
      /\ (Sole(c) /\ gen[c].kind = "iter" /\ gen[c].pc # "created")
            => LET p     == PageIndex(chain, gen[c].page)
                   items == gen[c].page[ItemField(cls)]
               IN  /\ Cardinality(GoodCalls) = IF gen[c].pc \in {"L69s", "L70"}
                                                THEN p ELSE p - 1
                   /\ gen[c].idx <= Len(items)
                   /\ out[c] = FlatMap(SubSeq(chain, 1, p - 1), ItemField(cls))
                                   \o SubSeq(items, 1, gen[c].idx)
C14_Step ==
    /\ (\E c \in Consumers : Enters(c)) => enums' = enums
    /\ log' # log => \E c \in Consumers : Ends(c)
    /\ \A c \in Consumers :
           (gen[c].kind = "iter" /\ gen'[c] # gen[c] /\ gen'[c].pc # "created")
               => /\ (gen[c].pc = "suspended"
                         /\ gen[c].idx < Len(gen[c].page[ItemField(cls)]))
                      => /\ gen'[c].pc = "suspended"
                         /\ log' = log
                         /\ heap' = heap
                         /\ _response' = _response
                         /\ gen'[c].page = gen[c].page
                         /\ out'[c] = Append(out[c],
                                             gen[c].page[ItemField(cls)][gen[c].idx + 1])
                  /\ Enters(c)
                      => /\ out'[c] = out[c]
                         /\ gen[c].pc \in {"suspended", "calling"}
                                => gen'[c].idx = Len(gen'[c].page[ItemField(cls)])
                         /\ Sole(c) =>
                                /\ gen'[c].call[1].request.page_token
                                       = _response'.next_page_token
                                /\ out[c] = FlatMap(SubSeq(chain, 1,
                                                           PageIndex(chain, _response')),
                                                    ItemField(cls))
C14_ItemsBeforeFetch == []C14_Order /\ [][C14_Step]_vars

\* a single `__iter__` enumeration stopped in the middle of the second page:
\* one invocation so far, one item of the page still to come
C14_Witness ==
    \E c \in Consumers :
        /\ Sole(c)
        /\ gen[c].kind = "iter"
        /\ gen[c].pc = "suspended"
        /\ Len(chain) > 2
        /\ gen[c].page = chain[2]
        /\ gen[c].idx = 1
        /\ Len(chain[1][ItemField(cls)]) = MaxItems
        /\ Len(chain[2][ItemField(cls)]) = MaxItems
        /\ Len(log) = 1

\* consumer c resumed its generator in this step
Resumed(c) ==
    /\ gen[c].pc \in {"created", "suspended"}
    /\ gen'[c].pc # "created"
    /\ gen'[c] # gen[c] \/ out'[c] # out[c]

\* c's generator, once resumed, has to decide whether to go on to another
\* page: a suspended `pages` generator always, an `__iter__` generator when
\* the page it holds has no item left
AtPageEnd(c) ==
    /\ gen[c].pc = "suspended"
    /\ gen[c].kind = "iter" => gen[c].idx = Len(gen[c].page[ItemField(cls)])

\* ------------------------------------------------------------------------
\* C15 Whether an enumeration goes on is decided by next_page_token alone,
\*     never by the item field.  A generator at the end of a page ends
\*     without an invocation when the stored token is empty, whatever items
\*     the page has, and invokes the method when the token is non-empty,
\*     even when the page has no items; an enumeration ends only with an
\*     empty stored token; an `__iter__` generator holding a page with an
\*     item left yields it whatever the token, and one that receives a page
\*     without items goes on to the next invocation unless the token is
\*     empty (a run that is switched out on its way yields nothing).
\* ------------------------------------------------------------------------
C15_Step ==
    \A c \in Consumers :
        /\ (gen[c].pc \in {"created", "suspended"} \cup Inside /\ gen'[c].pc = "done")
               => _response'.next_page_token = EmptyToken
        /\ (Resumed(c) /\ AtPageEnd(c)) =>
               IF _response.next_page_token = EmptyToken
               THEN gen'[c].pc = "done" /\ log' = log /\ heap' = heap
               ELSE /\ out'[c] = out[c]
                    /\ gen'[c].pc \in Running
                           \/ /\ Enters(c)
                              /\ gen'[c].call[1].request.page_token
                                     = _response.next_page_token
        /\ (Resumed(c) /\ gen[c].pc = "suspended" /\ ~AtPageEnd(c)) =>
               gen'[c].pc = "suspended" /\ Len(out'[c]) = Len(out[c]) + 1
        /\ (Ends(c) /\ log'[Len(log')].ok /\ gen[c].kind = "iter") =>
               \/ gen'[c].pc \in Running /\ out'[c] = out[c]
               \/ IF _response'[ItemField(cls)] # <<>>
                  THEN /\ gen'[c].pc = "suspended"
                       /\ out'[c] = Append(out[c], _response'[ItemField(cls)][1])
                  ELSE /\ out'[c] = out[c]
                       /\ IF _response'.next_page_token = EmptyToken
                          THEN gen'[c].pc = "done"
                          ELSE /\ Enters(c)
                               /\ gen'[c].call[1].request.page_token
                                      = _response'.next_page_token
C15_TokenDecides == [][C15_Step]_vars

\* a single `__iter__` enumeration ran to its end over a chain whose second
\* page has a token but no items and whose last page has items but no token;
\* it yielded the items of the pages around the empty one
C15_Witness ==
    \E c \in Consumers :
        /\ Sole(c)
        /\ gen[c].kind = "iter"
        /\ gen[c].pc = "done"
        /\ Len(chain) = 3
        /\ chain[2][ItemField(cls)] = <<>>
        /\ chain[3][ItemField(cls)] # <<>>
        /\ out[c] = chain[1][ItemField(cls)] \o chain[3][ItemField(cls)]
        /\ Len(out[c]) = 2 * MaxItems

\* the last invocation of the method raised
LastFailed == log # <<>> /\ ~LastCall.ok

\* ------------------------------------------------------------------------
\* C16 After an invocation raised while advancing past page k, no execution
\*     of next() having overlapped another, a new enumeration over the same pager
\*     starts with page k again: the first resumption of a new `pages`
\*     generator yields page k without an invocation, the first resumption
\*     of a new `__iter__` generator yields the first item of page k without
\*     an invocation (or, page k having no items, goes on to the
\*     invocation), and the next invocation entered carries page k's
\*     next_page_token, as the one that raised did.  A `pages` generator
\*     that ended with the exception, having been the only one resumed until
\*     then, had yielded page k last, so the caller receives page k twice.
\* ------------------------------------------------------------------------
C16_Step ==
    \A c \in Consumers :
        (LastFailed /\ Sequential /\ NoneInside) =>
            /\ _response = LastCall.current
            /\ Enters(c) =>
                   /\ gen'[c].call[1].request = LastCall.request
                   /\ gen'[c].call[1].request.page_token
                          = LastCall.current.next_page_token
            /\ (Resumed(c) /\ gen[c].pc = "created" /\ gen[c].kind = "pages") =>
                   /\ log' = log
                   /\ heap' = heap
                   /\ gen'[c].pc = "suspended"
                   /\ out'[c] = <<LastCall.current>>
                   /\ \A e \in Consumers :
                          (enums = 2 /\ gen[e].kind = "pages" /\ gen[e].pc = "raised"
                              /\ gen[e].exc.call = Len(log))
                              => out[e][Len(out[e])] = out'[c][1]
            /\ (Resumed(c) /\ gen[c].pc = "created" /\ gen[c].kind = "iter") =>
                   IF LastCall.current[ItemField(cls)] # <<>>
                   THEN /\ log' = log
                        /\ heap' = heap
                        /\ gen'[c].page = LastCall.current
                        /\ out'[c] = <<LastCall.current[ItemField(cls)][1]>>
                   ELSE gen'[c].pc \in Inside /\ out'[c] = out[c]
C16_RepeatAfterFailure == [][C16_Step]_vars

\* one `pages` enumeration yielded the first two pages and ended with the
\* exception of the second invocation; a second enumeration then yielded the
\* second page again and, the retried invocation returning, the third
C16_Witness ==
    \E c, e \in Consumers :
        /\ Len(chain) = 3
        /\ gen[e].kind = "pages"
        /\ gen[e].pc = "raised"
        /\ out[e] = <<chain[1], chain[2]>>
        /\ gen[c].kind = "pages"
        /\ out[c] = <<chain[2], chain[3]>>
        /\ Len(log) = 3
        /\ ~log[2].ok
        /\ log[3].ok
        /\ log[3].request = log[2].request

\* ------------------------------------------------------------------------
\* Correspondence between the two pagers: the same response, generator and
\* pager state with the item field under the other class's name
\* ------------------------------------------------------------------------
Other(k) ==
    IF k = "ListDocumentsPager" THEN "PartitionQueryPager" ELSE "ListDocumentsPager"
Rename(k, r) == Response(Other(k), r[ItemField(k)], r.next_page_token)
RenameChain(k, ch) == [i \in 1..Len(ch) |-> Rename(k, ch[i])]
RenameLog(k, l) ==
    [i \in 1..Len(l) |-> [l[i] EXCEPT !.current = Rename(k, l[i].current)]]
RenameState(k, S) ==
    [S EXCEPT !._response = Rename(k, S._response), !.log = RenameLog(k, S.log)]
RenameCall(k, call) ==
    [i \in 1..Len(call) |-> [call[i] EXCEPT !.current = Rename(k, call[i].current)]]
RenameGen(k, g) ==
    IF g.kind = "iter" /\ g.pc # "created"
    THEN [g EXCEPT !.page = Rename(k, g.page), !.call = RenameCall(k, g.call),
                   !.got = [i \in 1..Len(g.got) |-> Rename(k, g.got[i])]]
    ELSE [g EXCEPT !.call = RenameCall(k, g.call),
                   !.got = [i \in 1..Len(g.got) |-> Rename(k, g.got[i])]]
RenameResult(k, r) ==
    [r EXCEPT !.S = RenameState(k, r.S), !.g = RenameGen(k, r.g),
              !.value = IF \/ r.outcome = "yield" /\ r.g.kind = "pages"
                           \/ r.outcome = "run" /\ r.g.pc = "L69s"
                        THEN Rename(k, r.value) ELSE r.value]

\* two results of a step are the same: same outcome, same value handed to
\* the consumer (or request read by the method, or token loaded), same pager
\* state and generator afterwards
SameResult(a, b) ==
    \A x \in {a} : \A y \in {b} :
        /\ x.outcome = y.outcome
        /\ x.outcome = y.outcome => x.value = y.value
        /\ x.S = y.S
        /\ x.g = y.g

\* the step generator g of a pager of class k takes from pager state S
step(k, ch, fl, g, S) ==
    IF g.kind = "pages" THEN pages_step(ch, fl, g, S) ELSE iter_resume(k, ch, fl, g, S)

\* ------------------------------------------------------------------------
\* C17 ListDocumentsPager and PartitionQueryPager are the same state machine
\*     up to the name of the item field.  In every reachable state of either
\*     pager, the pager of the other class in the corresponding state (same
\*     chain, same request, same log, same generator positions, same
\*     invocations in flight) answers every resumption and every return of
\*     the method with the corresponding result: the same invocation
\*     with the same token, the same outcome (yield, end, exception), the
\*     corresponding page or the same item, the corresponding stored
\*     request and response afterwards, the same passthrough token.
\* ------------------------------------------------------------------------
C17_SameMachine ==
    \A k \in {cls} : \A S \in {PagerState} :
    \A S2 \in {RenameState(k, S)} : \A ch2 \in {RenameChain(k, chain)} :
        /\ ch2 = Chain(Other(k), Len(chain),
                       [i \in 1..Len(chain) |-> Len(chain[i][ItemField(k)])])
        /\ RenameState(Other(k), S2) = S
        /\ LET made  == __init__(heap, caller_request, chain[1])
               made2 == __init__(heap, caller_request, ch2[1])
           IN  /\ made2._response = Rename(k, made._response)
               /\ made2.heap = made.heap
               /\ made2._request = made._request
        /\ __getattr__(S2._response, "next_page_token")
               = __getattr__(S._response, "next_page_token")
        /\ __getattr__(S2._response, ItemField(Other(k)))
               = __getattr__(S._response, ItemField(k))
        /\ \A c \in Consumers :
               gen[c].kind # "none" =>
                   \A f \in IF gen[c].pc = "calling" THEN Failing ELSE {0} :
                       SameResult(step(Other(k), ch2, {f}, RenameGen(k, gen[c]), S2),
                                  RenameResult(k, step(k, chain, {f}, gen[c], S)))

\* a PartitionQueryPager with an `__iter__` enumeration stopped inside the
\* second page after one invocation returned, and a `pages` enumeration
\* started beside it
C17_Witness ==
    \E c, d \in Consumers :
        /\ cls = "PartitionQueryPager"
        /\ gen[c].kind = "iter"
        /\ gen[c].pc = "suspended"
        /\ Len(chain) > 2
        /\ gen[c].page = chain[2]
        /\ gen[c].idx = 1
        /\ Len(gen[c].page.partitions) = MaxItems
        /\ gen[d].kind = "pages"
        /\ gen[d].pc = "suspended"
        /\ log # <<>>

====
